---- MODULE Spec2Model ----
(***************************************************************************)
(* The POST /transcribe handlers of the three servers of the repository:   *)
(*   python/server_dual.py      primary engine with fallback               *)
(*   python/server.py           both engines side by side                  *)
(*   python/server_original.py  local Whisper only                         *)
(* One process runs one of the three programs.  Every handler is an async  *)
(* function that never suspends (the engines are called synchronously),    *)
(* so the event loop runs one handler at a time from entry to response.    *)
(* The handler is modelled step by step: pc is its position.               *)
(***************************************************************************)
EXTENDS Integers, Sequences, FiniteSets, TLC

(* Number of requests a behaviour receives. *)
MaxRequests == 2

Servers == {"server_dual", "server", "server_original"}

Engines == {"local_whisper", "openai_whisper"}

(* Values of the environment variables PRIMARY_ENGINE and FALLBACK_ENGINE. *)
PrimaryValues == Engines \cup {"other_whisper"}

FallbackValues == Engines \cup {""}

(* Content types of the uploaded part, as <<type, subtype>>.  A part       *)
(* without a Content-Type header has none: audio.content_type is None.     *)
NoContentType == << >>

ContentTypes == {<<"audio", "wav">>, <<"text", "plain">>, NoContentType}

(* Values of the language form field. *)
Languages == {"auto", "", "en-IN", "hi-IN", "gu-IN", "fr"}

(* Messages of the exceptions an engine raises: str(e) may be empty. *)
ErrMsgs == {"", "boom"}

(* Sizes of the uploaded payload, in units of 4096 bytes. *)
Payloads == {1, 16, 17}

(* Buffer of the open NamedTemporaryFile handle (one 4096-byte block) and  *)
(* the chunk shutil.copyfileobj reads and writes (64 KiB), in those units. *)
BufferSize == 1

COPY_BUFSIZE == 16

(* Names tempfile can give to a temporary file. *)
TempNames == 1 .. MaxRequests

(* Python's None, and a local variable that is not bound yet. *)
None == "<None>"

Unbound == 0

(* The form field that selects the engine(s): engine / engines. *)
EngineFields(srv) ==
    CASE srv = "server_dual" -> {"auto", "local", "openai", "azure"}
      [] srv = "server" -> {"both", "local", "openai", "azure"}
      [] OTHER -> {"n/a"}

VARIABLES
    server,               \* which of the three programs this process runs
    local_whisper_model,  \* global: the local model is loaded (whisper_model)
    openai_client,        \* global: the remote client is initialised
    PRIMARY_ENGINE,       \* server_dual.py configuration
    FALLBACK_ENGINE,
    ENABLE_DUAL_ENGINE,
    files,                \* temporary files that exist on disk
    served,               \* requests whose handler has started
    waiting,              \* requests that arrived and wait for the event loop
    on_disk,              \* bytes readable at the path of temp_file
    buffered,             \* bytes held in the write buffer of temp_file
    pc,                   \* position of the running handler
    req,                  \* the request: content_type, language, engine
    selected_engine,      \* server_dual.py local variable
    temp_file,            \* name of the NamedTemporaryFile of this request
    temp_path,            \* local variable temp_path (Unbound before line 118)
    calls,                \* engine invocations of this request, in order
    primary_error,        \* str(primary_error) of server_dual.py
    results,              \* server.py local variable results
    pending,              \* what the try block returns or raises
    resp,                 \* what leaves the handler
    status_resp           \* the GET response being returned (/health, ...)

(* The temporary file's content: what is on disk and what is buffered. *)
staged == <<on_disk, buffered>>

config == <<server, local_whisper_model, openai_client,
            PRIMARY_ENGINE, FALLBACK_ENGINE, ENABLE_DUAL_ENGINE>>

vars == <<server, local_whisper_model, openai_client,
          PRIMARY_ENGINE, FALLBACK_ENGINE, ENABLE_DUAL_ENGINE,
          files, served, waiting, on_disk, buffered, pc, req,
          selected_engine, temp_file, temp_path,
          calls, primary_error, results, pending, resp, status_resp>>

----------------------------------------------------------------------------
(* Outcomes of a handler. *)

NoResults == [e \in {} |-> ""]

NoResp ==
    [kind |-> "none", code |-> 0, detail |-> "", engine |-> "",
     engine_used |-> "", primary_engine_error |-> {},
     entries |-> NoResults, dual_mode |-> FALSE]

(* raise HTTPException(status_code=code, detail=detail) *)
HTTPException(code, detail) ==
    [NoResp EXCEPT !.kind = "http_error", !.code = code, !.detail = detail]

(* Any other exception that leaves the handler. *)
Unhandled(name) ==
    [NoResp EXCEPT !.kind = "unhandled", !.detail = name]

(* A returned body (status 200). *)
Result(engine, used, perr) ==
    [NoResp EXCEPT !.kind = "result", !.code = 200, !.engine = engine,
                   !.engine_used = used, !.primary_engine_error = perr]

(* No GET response is being returned. *)
NoStatus == [endpoint |-> "", body |-> [f \in {} |-> ""]]

NoRequest ==
    [content_type |-> <<"", "">>, language |-> "auto", engine |-> "",
     payload |-> 0]

----------------------------------------------------------------------------
(* Pure helpers. *)

(* audio.content_type.startswith('audio/') *)
StartsWithAudio(ct) == ct[1] = "audio"

(* lang_map.get(language, language) *)
lang_map(language) ==
    CASE language = "en-IN" -> "en"
      [] language = "hi-IN" -> "hi"
      [] language = "gu-IN" -> "gu"
      [] OTHER -> language

(* options.get("language"): None when options has no language key. *)
Options(language) ==
    IF language # "" /\ language # "auto" THEN lang_map(language) ELSE None

(* server_dual.py: language given to local_whisper_model.transcribe *)
LocalLanguage(language) == Options(language)

(* server_dual.py: language given to openai_client...create *)
OpenAILanguage(language) == IF language # "auto" THEN language ELSE None

(* server.py: language given to whisper_model.transcribe *)
ServerLocalLanguage(language) == Options(language)

(* server.py: language given to openai_client...create *)
ServerOpenAILanguage(language) ==
    IF Options(language) # None /\ Options(language) # ""
    THEN Options(language) ELSE None

Available(e) ==
    CASE e = "local_whisper" -> local_whisper_model
      [] e = "openai_whisper" -> openai_client
      [] OTHER -> FALSE

(* server_dual.py: which engine the request is sent to ("" : none, 503). *)
SelectEngine(engine) ==
    IF engine = "auto"
    THEN IF PRIMARY_ENGINE = "local_whisper" /\ local_whisper_model
         THEN "local_whisper"
         ELSE IF PRIMARY_ENGINE = "openai_whisper" /\ openai_client
         THEN "openai_whisper"
         ELSE IF local_whisper_model THEN "local_whisper"
         ELSE IF openai_client THEN "openai_whisper"
         ELSE ""
    ELSE engine \o "_whisper"

(* temp_file.write(chunk) on a buffered handle holding buf bytes with disk *)
(* bytes written: a chunk that fits is kept in the buffer; otherwise the   *)
(* buffer is flushed and a chunk larger than the buffer is written         *)
(* through.  The result is <<disk, buf>>.                                  *)
BufferedWrite(chunk, disk, buf) ==
    IF chunk <= BufferSize - buf
    THEN <<disk, buf + chunk>>
    ELSE IF chunk > BufferSize
    THEN <<disk + buf + chunk, 0>>
    ELSE <<disk + buf, chunk>>

(* shutil.copyfileobj(audio.file, temp_file): chunks of COPY_BUFSIZE. *)
RECURSIVE copyfileobj(_, _, _)
copyfileobj(remaining, disk, buf) ==
    IF remaining = 0
    THEN <<disk, buf>>
    ELSE LET chunk == IF remaining < COPY_BUFSIZE THEN remaining
                      ELSE COPY_BUFSIZE
             w == BufferedWrite(chunk, disk, buf)
         IN copyfileobj(remaining - chunk, w[1], w[2])

(* The reads of audio.file that return data when the payload is n. *)
Chunks(n) == (n + COPY_BUFSIZE - 1) \div COPY_BUFSIZE

(* What shutil.copyfileobj has written when its first reads reads have     *)
(* returned data: each chunk is written before the next read.              *)
RECURSIVE CopiedAfter(_, _, _, _)
CopiedAfter(reads, remaining, disk, buf) ==
    IF reads = 0 \/ remaining = 0
    THEN <<disk, buf>>
    ELSE LET chunk == IF remaining < COPY_BUFSIZE THEN remaining
                      ELSE COPY_BUFSIZE
             w == BufferedWrite(chunk, disk, buf)
         IN CopiedAfter(reads - 1, remaining - chunk, w[1], w[2])

(* tempfile gives a name that no existing file has. *)
NewTempName ==
    CHOOSE n \in TempNames \ files : \A m \in TempNames \ files : n <= m

(* An engine is handed the temporary path and a language; it reads the    *)
(* file by its path and finds what is on disk (readable, exists).          *)
Invoke(e, language) ==
    calls' = Append(calls, [engine |-> e, language |-> language,
                            path |-> temp_path, outcome |-> "running",
                            error |-> "", readable |-> on_disk,
                            exists |-> temp_path \in files])

(* The running invocation returns (ok) or raises (error with message msg). *)
Finish(outcome, msg) ==
    /\ calls[Len(calls)].outcome = "running"
    /\ calls' = [calls EXCEPT ![Len(calls)] =
                    [@ EXCEPT !.outcome = outcome, !.error = msg]]

----------------------------------------------------------------------------
Init ==
    /\ server \in Servers
    /\ local_whisper_model \in BOOLEAN
    /\ openai_client \in (IF server = "server_original" THEN {FALSE} ELSE BOOLEAN)
    /\ PRIMARY_ENGINE \in
          (IF server = "server_dual" THEN PrimaryValues ELSE {"local_whisper"})
    /\ FALLBACK_ENGINE \in
          (IF server = "server_dual" THEN FallbackValues ELSE {"openai_whisper"})
    /\ ENABLE_DUAL_ENGINE \in
          (IF server = "server_dual" THEN BOOLEAN ELSE {TRUE})
    /\ files = {}
    /\ served = 0
    /\ waiting = 0
    /\ on_disk = 0
    /\ buffered = 0
    /\ pc = "idle"
    /\ req = NoRequest
    /\ selected_engine = ""
    /\ temp_file = Unbound
    /\ temp_path = Unbound
    /\ calls = <<>>
    /\ primary_error = ""
    /\ results = NoResults
    /\ pending = NoResp
    /\ resp = NoResp
    /\ status_resp = NoStatus

(* A request arrives at the server: uvicorn accepts it and schedules its   *)
(* handler on the event loop.                                              *)
Arrive ==
    /\ served + waiting < MaxRequests
    /\ waiting' = waiting + 1
    /\ status_resp' = NoStatus
    /\ UNCHANGED <<config, files, served, staged, pc, req,
                   selected_engine, temp_file, temp_path, calls,
                   primary_error, results, pending, resp>>

(* The event loop starts the handler of a waiting request.  It can do so   *)
(* only when no handler is running: transcribe_audio never suspends,       *)
(* because the coroutines it awaits call the engines synchronously.        *)
Receive ==
    /\ pc \in {"idle", "done"}
    /\ waiting > 0
    /\ waiting' = waiting - 1
    /\ \E ct \in ContentTypes, l \in Languages, e \in EngineFields(server),
          n \in Payloads :
          req' = [content_type |-> ct, language |-> l, engine |-> e,
                  payload |-> n]
    /\ on_disk' = 0
    /\ buffered' = 0
    /\ served' = served + 1
    /\ pc' = "validate"
    /\ selected_engine' = ""
    /\ temp_file' = Unbound
    /\ temp_path' = Unbound
    /\ calls' = <<>>
    /\ primary_error' = ""
    /\ results' = NoResults
    /\ pending' = NoResp
    /\ resp' = NoResp
    /\ status_resp' = NoStatus
    /\ UNCHANGED <<config, files>>

(* The handler ends before the with block: the exception is the response. *)
Reject(e) ==
    /\ resp' = e
    /\ pc' = "done"
    /\ UNCHANGED <<config, status_resp, files, served, waiting, staged, req,
                   selected_engine, temp_file, temp_path, calls,
                   primary_error, results, pending>>

(* server_dual.py lines 96-112 *)
DualValidate ==
    /\ pc = "validate"
    /\ server = "server_dual"
    /\ IF req.content_type = NoContentType
       THEN Reject(Unhandled("AttributeError"))
       ELSE IF ~StartsWithAudio(req.content_type)
       THEN Reject(HTTPException(400, "File must be an audio file"))
       ELSE IF SelectEngine(req.engine) = ""
       THEN Reject(HTTPException(503, "No transcription engines available"))
       ELSE /\ selected_engine' = SelectEngine(req.engine)
            /\ pc' = "tempfile"
            /\ UNCHANGED <<config, status_resp, files, served, waiting,
                           staged, req, temp_file, temp_path, calls,
                           primary_error, results, pending, resp>>

(* server.py lines 85-89, server_original.py lines 57-62 *)
ModelValidate ==
    /\ pc = "validate"
    /\ server \in {"server", "server_original"}
    /\ IF ~local_whisper_model
       THEN Reject(HTTPException(503, "Whisper model not loaded"))
       ELSE IF req.content_type = NoContentType
       THEN Reject(Unhandled("AttributeError"))
       ELSE IF ~StartsWithAudio(req.content_type)
       THEN Reject(HTTPException(400, "File must be an audio file"))
       ELSE /\ pc' = "tempfile"
            /\ UNCHANGED <<config, status_resp, files, served, waiting,
                           staged, req, selected_engine, temp_file, temp_path,
                           calls, primary_error, results, pending, resp>>

(* with tempfile.NamedTemporaryFile(delete=False, ...) as temp_file *)
CreateTempFile ==
    /\ pc = "tempfile"
    /\ temp_file' = NewTempName
    /\ files' = files \cup {NewTempName}
    /\ on_disk' = 0
    /\ buffered' = 0
    /\ pc' = "copy"
    /\ UNCHANGED <<config, status_resp, served, waiting, req, selected_engine,
                   temp_path, calls, primary_error, results, pending, resp>>

(* Where the try block goes after temp_path is bound. *)
Dispatch ==
    CASE server = "server_dual" -> "primary"
      [] server = "server" -> "local"
      [] OTHER -> "whisper"

(* What a failing shutil.copyfileobj leaves for the finally clause:        *)
(* server_original.py catches it (except Exception), the others do not.    *)
CopyFailure ==
    IF server = "server_original"
    THEN HTTPException(500, "Transcription failed: copy failed")
    ELSE Unhandled("OSError")

(* CopyPayload with a temporary file that is deleted when it is closed     *)
(* right after the copy (delete=True and the engines outside the with).    *)
CopyPayload_DeletedOnClose ==
    /\ pc = "copy"
    /\ on_disk' = copyfileobj(req.payload, on_disk, buffered)[1]
    /\ buffered' = copyfileobj(req.payload, on_disk, buffered)[2]
    /\ temp_path' = temp_file
    /\ files' = files \ {temp_file}
    /\ pc' = Dispatch
    /\ UNCHANGED <<config, status_resp, served, waiting, req, selected_engine,
                   temp_file, calls, primary_error, results, pending, resp>>

(* shutil.copyfileobj(audio.file, temp_file); temp_path = temp_file.name *)
(* A read of audio.file that raises ends the copy: the chunks read before  *)
(* it are written (the raising read may also be the one that would have    *)
(* found the end of the payload).                                          *)
CopyPayload ==
    /\ pc = "copy"
    /\ \/ /\ on_disk' = copyfileobj(req.payload, on_disk, buffered)[1]
          /\ buffered' = copyfileobj(req.payload, on_disk, buffered)[2]
          /\ temp_path' = temp_file
          /\ pc' = Dispatch
          /\ UNCHANGED pending
       \/ /\ \E reads \in 0 .. Chunks(req.payload) :
                /\ on_disk' =
                      CopiedAfter(reads, req.payload, on_disk, buffered)[1]
                /\ buffered' =
                      CopiedAfter(reads, req.payload, on_disk, buffered)[2]
          /\ pending' = CopyFailure
          /\ pc' = "finally"
          /\ UNCHANGED temp_path
    /\ UNCHANGED <<config, status_resp, files, served, waiting, req,
                   selected_engine, temp_file, calls, primary_error, results,
                   resp>>

----------------------------------------------------------------------------
(* server_dual.py: the try block, lines 122-157. *)

(* lines 124-129: the selected engine is invoked, or is not available. *)
DualPrimary ==
    /\ pc = "primary"
    /\ IF selected_engine = "local_whisper" /\ local_whisper_model
       THEN /\ Invoke("local_whisper", LocalLanguage(req.language))
            /\ pc' = "primary_call"
            /\ UNCHANGED primary_error
       ELSE IF selected_engine = "openai_whisper" /\ openai_client
       THEN /\ Invoke("openai_whisper", OpenAILanguage(req.language))
            /\ pc' = "primary_call"
            /\ UNCHANGED primary_error
       ELSE /\ primary_error' = "Engine " \o selected_engine \o " not available"
            /\ pc' = "fallback"
            /\ UNCHANGED calls
    /\ UNCHANGED <<config, status_resp, files, served, waiting, staged, req,
                   selected_engine, temp_file, temp_path, results, pending,
                   resp>>

(* lines 131-132: result["engine_used"] = selected_engine; return result *)
DualPrimaryResult == Result(selected_engine, selected_engine, {})

(* DualPrimaryReturns without the return of line 132: the handler goes on  *)
(* to the fallback step after a success.                                   *)
DualPrimaryReturns_FallsThrough ==
    /\ pc = "primary_call"
    /\ \/ /\ Finish("ok", "")
          /\ primary_error' = ""
       \/ \E msg \in ErrMsgs :
             /\ Finish("error", msg)
             /\ primary_error' = msg
    /\ pc' = "fallback"
    /\ UNCHANGED <<config, status_resp, files, served, waiting, staged, req,
                   selected_engine, temp_file, temp_path, results, pending,
                   resp>>

(* lines 125/127 return, or raise into except Exception as primary_error. *)
DualPrimaryReturns ==
    /\ pc = "primary_call"
    /\ \/ /\ Finish("ok", "")
          /\ pending' = DualPrimaryResult
          /\ pc' = "finally"
          /\ UNCHANGED primary_error
       \/ \E msg \in ErrMsgs :
             /\ Finish("error", msg)
             /\ primary_error' = msg
             /\ pc' = "fallback"
             /\ UNCHANGED pending
    /\ UNCHANGED <<config, status_resp, files, served, waiting, staged, req,
                   selected_engine, temp_file, temp_path, results, resp>>

(* FallbackEnabled without the ENABLE_DUAL_ENGINE flag. *)
FallbackEnabled_IgnoresFlag == FALLBACK_ENGINE # ""

(* line 138: if ENABLE_DUAL_ENGINE and FALLBACK_ENGINE *)
FallbackEnabled == ENABLE_DUAL_ENGINE /\ FALLBACK_ENGINE # ""

(* line 155 *)
BothFailed(fallback_error) ==
    HTTPException(500, "Both engines failed. Primary: " \o primary_error
                          \o ", Fallback: " \o fallback_error)

(* lines 138-147 and 157: the fallback engine is invoked, is not           *)
(* available, or fallback is off.                                          *)
DualFallback ==
    /\ pc = "fallback"
    /\ IF FallbackEnabled
       THEN IF FALLBACK_ENGINE = "local_whisper" /\ local_whisper_model
            THEN /\ Invoke("local_whisper", LocalLanguage(req.language))
                 /\ pc' = "fallback_call"
                 /\ UNCHANGED pending
            ELSE IF FALLBACK_ENGINE = "openai_whisper" /\ openai_client
            THEN /\ Invoke("openai_whisper", OpenAILanguage(req.language))
                 /\ pc' = "fallback_call"
                 /\ UNCHANGED pending
            ELSE /\ pending' = BothFailed("Fallback engine " \o FALLBACK_ENGINE
                                             \o " not available")
                 /\ pc' = "finally"
                 /\ UNCHANGED calls
       ELSE /\ pending' = HTTPException(500, "Transcription failed: "
                                                \o primary_error)
            /\ pc' = "finally"
            /\ UNCHANGED calls
    /\ UNCHANGED <<config, status_resp, files, served, waiting, staged, req,
                   selected_engine, temp_file, temp_path, primary_error,
                   results, resp>>

(* DualFallbackResult without line 150. *)
DualFallbackResult_NoPrimaryError ==
    Result(FALLBACK_ENGINE, FALLBACK_ENGINE \o " (fallback)", {})

(* lines 149-151: engine_used and primary_engine_error of a fallback result *)
DualFallbackResult ==
    Result(FALLBACK_ENGINE, FALLBACK_ENGINE \o " (fallback)", {primary_error})

(* lines 143/145 return, or raise into except Exception as fallback_error. *)
DualFallbackReturns ==
    /\ pc = "fallback_call"
    /\ \/ /\ Finish("ok", "")
          /\ pending' = DualFallbackResult
       \/ \E msg \in ErrMsgs :
             /\ Finish("error", msg)
             /\ pending' = BothFailed(msg)
    /\ pc' = "finally"
    /\ UNCHANGED <<config, status_resp, files, served, waiting, staged, req,
                   selected_engine, temp_file, temp_path, primary_error,
                   results, resp>>

----------------------------------------------------------------------------
(* server.py: the try block, lines 99-172. *)

(* lines 108-111 *)
ServerLocal ==
    /\ pc = "local"
    /\ IF req.engine \in {"both", "local"} /\ local_whisper_model
       THEN /\ Invoke("local_whisper", ServerLocalLanguage(req.language))
            /\ pc' = "local_call"
       ELSE /\ pc' = "openai"
            /\ UNCHANGED calls
    /\ UNCHANGED <<config, status_resp, files, served, waiting, staged, req,
                   selected_engine, temp_file, temp_path, primary_error,
                   results, pending, resp>>

(* results[e] = {..., "status": status} *)
Put(e, status) == results' = (e :> status) @@ results

(* ServerLocalReturns where a failing local engine ends the dispatch:      *)
(* the remote engine is skipped.                                           *)
ServerLocalReturns_ShortCircuit ==
    /\ pc = "local_call"
    /\ \/ /\ Finish("ok", "")
          /\ Put("local_whisper", "success")
          /\ pc' = "openai"
       \/ \E msg \in ErrMsgs :
             /\ Finish("error", msg)
             /\ Put("local_whisper", "error")
             /\ pc' = "return"
    /\ UNCHANGED <<config, status_resp, files, served, waiting, staged, req,
                   selected_engine, temp_file, temp_path, primary_error,
                   pending, resp>>

(* lines 112-126 *)
ServerLocalReturns ==
    /\ pc = "local_call"
    /\ \/ /\ Finish("ok", "")
          /\ Put("local_whisper", "success")
       \/ \E msg \in ErrMsgs :
             /\ Finish("error", msg)
             /\ Put("local_whisper", "error")
    /\ pc' = "openai"
    /\ UNCHANGED <<config, status_resp, files, served, waiting, staged, req,
                   selected_engine, temp_file, temp_path, primary_error,
                   pending, resp>>

(* ServerOpenAI without the elif of lines 154-159: an uninitialised client *)
(* leaves no entry.                                                        *)
ServerOpenAI_NoEntry ==
    /\ pc = "openai"
    /\ IF req.engine \in {"both", "openai"} /\ openai_client
       THEN /\ Invoke("openai_whisper", ServerOpenAILanguage(req.language))
            /\ pc' = "openai_call"
       ELSE /\ pc' = "return"
            /\ UNCHANGED calls
    /\ UNCHANGED <<config, status_resp, files, served, waiting, staged, req,
                   selected_engine, temp_file, temp_path, primary_error,
                   results, pending, resp>>

(* lines 129-137 and 154-159 *)
ServerOpenAI ==
    /\ pc = "openai"
    /\ IF req.engine \in {"both", "openai"} /\ openai_client
       THEN /\ Invoke("openai_whisper", ServerOpenAILanguage(req.language))
            /\ pc' = "openai_call"
            /\ UNCHANGED results
       ELSE IF req.engine \in {"both", "openai"} /\ ~openai_client
       THEN /\ Put("openai_whisper", "not_configured")
            /\ pc' = "return"
            /\ UNCHANGED calls
       ELSE /\ pc' = "return"
            /\ UNCHANGED <<calls, results>>
    /\ UNCHANGED <<config, status_resp, files, served, waiting, staged, req,
                   selected_engine, temp_file, temp_path, primary_error,
                   pending, resp>>

(* lines 139-153 *)
ServerOpenAIReturns ==
    /\ pc = "openai_call"
    /\ \/ /\ Finish("ok", "")
          /\ Put("openai_whisper", "success")
       \/ \E msg \in ErrMsgs :
             /\ Finish("error", msg)
             /\ Put("openai_whisper", "error")
    /\ pc' = "return"
    /\ UNCHANGED <<config, status_resp, files, served, waiting, staged, req,
                   selected_engine, temp_file, temp_path, primary_error,
                   pending, resp>>

(* The body of results[e] returned alone. *)
Single(e) ==
    [NoResp EXCEPT !.kind = "result", !.code = 200, !.engine = e,
                   !.entries = (e :> results[e])]

(* lines 162-172 *)
ServerBody ==
    IF req.engine = "local" /\ "local_whisper" \in DOMAIN results
    THEN Single("local_whisper")
    ELSE IF req.engine = "openai" /\ "openai_whisper" \in DOMAIN results
    THEN Single("openai_whisper")
    ELSE [NoResp EXCEPT !.kind = "result", !.code = 200,
                        !.entries = results, !.dual_mode = TRUE]

ServerReturn ==
    /\ pc = "return"
    /\ pending' = ServerBody
    /\ pc' = "finally"
    /\ UNCHANGED <<config, status_resp, files, served, waiting, staged, req,
                   selected_engine, temp_file, temp_path, calls,
                   primary_error, results, resp>>

----------------------------------------------------------------------------
(* server_original.py: the try block, lines 73-101. *)

(* line 85 *)
OriginalTranscribe ==
    /\ pc = "whisper"
    /\ Invoke("local_whisper", Options(req.language))
    /\ pc' = "whisper_call"
    /\ UNCHANGED <<config, status_resp, files, served, waiting, staged, req,
                   selected_engine, temp_file, temp_path, primary_error,
                   results, pending, resp>>

(* lines 88-101 *)
OriginalReturns ==
    /\ pc = "whisper_call"
    /\ \/ /\ Finish("ok", "")
          /\ pending' = Result("whisper", "", {})
       \/ \E msg \in ErrMsgs :
             /\ Finish("error", msg)
             /\ pending' = HTTPException(500, "Transcription failed: " \o msg)
    /\ pc' = "finally"
    /\ UNCHANGED <<config, status_resp, files, served, waiting, staged, req,
                   selected_engine, temp_file, temp_path, primary_error,
                   results, resp>>

----------------------------------------------------------------------------
(* Positions at which the handler is inside an engine call. *)
CallStates ==
    {"primary_call", "fallback_call", "local_call", "openai_call",
     "whisper_call"}

(* local_whisper_model.transcribe never returns.  No call is made under a  *)
(* timeout (no asyncio.wait_for, no timeout argument), so nothing ends the *)
(* call from outside.  The remote call is left to the client library's     *)
(* own request timeout, which raises.                                      *)
EngineHangs ==
    /\ pc \in CallStates
    /\ calls[Len(calls)].engine = "local_whisper"
    /\ Finish("hung", "")
    /\ UNCHANGED <<config, status_resp, files, served, waiting, staged, pc,
                   req, selected_engine, temp_file, temp_path, primary_error,
                   results, pending, resp>>

----------------------------------------------------------------------------
(* finally: if os.path.exists(temp_path): os.unlink(temp_path)             *)
(* Reading temp_path before line 118/95/69 bound it raises                 *)
(* UnboundLocalError, which replaces what the try block returned or raised *)
(* and leaves the file on disk.                                            *)
(* The finally clause is the last statement of the with block: leaving the *)
(* block closes temp_file, which flushes its buffer.  The bytes go to the  *)
(* file that was left on disk; once the file is unlinked nothing is        *)
(* readable at its path.                                                   *)
Cleanup ==
    /\ pc = "finally"
    /\ IF temp_path = Unbound
       THEN /\ resp' = Unhandled("UnboundLocalError")
            /\ on_disk' = on_disk + buffered
            /\ UNCHANGED files
       ELSE /\ files' = files \ {temp_path}
            /\ on_disk' = 0
            /\ resp' = pending
    /\ buffered' = 0
    /\ pc' = "done"
    /\ UNCHANGED <<config, status_resp, served, waiting, req,
                   selected_engine, temp_file, temp_path, calls,
                   primary_error, results, pending>>

----------------------------------------------------------------------------
(* The GET handlers.  Each builds its body from the global engine handles  *)
(* and assigns nothing.  A GET request is served at once, at a moment when *)
(* the event loop is free: no handler is running and no request waits.     *)
(* Its response has left when the server does anything else.               *)

(* MODEL_SIZE: WHISPER_MODEL_SIZE, "base" by default. *)
MODEL_SIZE == "base"

(* GET /health *)
HealthBody ==
    CASE server = "server_dual" ->
           [status |-> "healthy",
            engines |->
              [local_whisper |->
                 [available |-> local_whisper_model,
                  model_size |->
                     IF local_whisper_model THEN MODEL_SIZE ELSE None],
               openai_whisper |->
                 [available |-> openai_client,
                  model |-> IF openai_client THEN "whisper-1" ELSE None]],
            primary_engine |-> PRIMARY_ENGINE,
            fallback_engine |->
               IF ENABLE_DUAL_ENGINE THEN FALLBACK_ENGINE ELSE None,
            dual_engine_enabled |-> ENABLE_DUAL_ENGINE]
      [] server = "server" ->
           [status |-> "healthy",
            model_loaded |-> local_whisper_model,
            model_size |-> MODEL_SIZE,
            engines |-> [local_whisper |-> local_whisper_model,
                         openai_whisper |-> openai_client]]
      [] OTHER ->
           [status |-> "healthy",
            model_loaded |-> local_whisper_model,
            model_size |-> MODEL_SIZE]

(* GET /engines (server_dual.py only) *)
EnginesBody ==
    [local_whisper |->
       [available |-> local_whisper_model,
        model_size |-> MODEL_SIZE,
        status |-> IF local_whisper_model THEN "loaded" ELSE "not_loaded"],
     openai_whisper |->
       [available |-> openai_client,
        model |-> "whisper-1",
        status |-> IF openai_client THEN "connected" ELSE "not_configured"]]

(* GET / *)
RootBody ==
    CASE server = "server_dual" ->
           [message |-> "STT Dual Engine Server",
            engines_available |-> [local_whisper |-> local_whisper_model,
                                   openai_whisper |-> openai_client],
            endpoints |-> [health |-> "/health",
                           transcribe |-> "/transcribe (POST)",
                           engines |-> "/engines", docs |-> "/docs"]]
      [] server = "server" ->
           [message |-> "STT Dual Engine Server",
            local_whisper |-> local_whisper_model,
            openai_whisper |-> openai_client,
            endpoints |-> [health |-> "/health",
                           transcribe |-> "/transcribe (POST)",
                           docs |-> "/docs"]]
      [] OTHER ->
           [message |-> "STT Server is running",
            model_loaded |-> local_whisper_model,
            endpoints |-> [health |-> "/health",
                           transcribe |-> "/transcribe (POST)",
                           docs |-> "/docs"]]

(* A GET handler returns body. *)
Respond(endpoint, body) ==
    /\ pc \in {"idle", "done"}
    /\ waiting = 0
    /\ status_resp' = [endpoint |-> endpoint, body |-> body]
    /\ UNCHANGED <<config, files, served, waiting, staged, pc, req,
                   selected_engine, temp_file, temp_path, calls,
                   primary_error, results, pending, resp>>

(* health_check that probes again: an engine whose invocation failed in    *)
(* the last request loses its handle.                                      *)
health_check_ProbesAgain ==
    /\ pc \in {"idle", "done"}
    /\ waiting = 0
    /\ local_whisper_model' =
          (local_whisper_model /\
           \A i \in 1 .. Len(calls) :
              ~(calls[i].engine = "local_whisper" /\
                calls[i].outcome = "error"))
    /\ openai_client' =
          (openai_client /\
           \A i \in 1 .. Len(calls) :
              ~(calls[i].engine = "openai_whisper" /\
                calls[i].outcome = "error"))
    /\ status_resp' = [endpoint |-> "/health", body |-> HealthBody]
    /\ UNCHANGED <<server, PRIMARY_ENGINE, FALLBACK_ENGINE,
                   ENABLE_DUAL_ENGINE, files, served, waiting, staged, pc,
                   req, selected_engine, temp_file, temp_path, calls,
                   primary_error, results, pending, resp>>

health_check == Respond("/health", HealthBody)

get_engines ==
    /\ server = "server_dual"
    /\ Respond("/engines", EnginesBody)

root == Respond("/", RootBody)

(* The steps of the running handler. *)
HandlerStep ==
    \/ DualValidate
    \/ ModelValidate
    \/ CreateTempFile
    \/ CopyPayload
    \/ DualPrimary
    \/ DualPrimaryReturns
    \/ DualFallback
    \/ DualFallbackReturns
    \/ ServerLocal
    \/ ServerLocalReturns
    \/ ServerOpenAI
    \/ ServerOpenAIReturns
    \/ ServerReturn
    \/ OriginalTranscribe
    \/ OriginalReturns
    \/ Cleanup

Next ==
    \/ Arrive
    \/ Receive
    \/ health_check
    \/ get_engines
    \/ root
    \/ EngineHangs
    \/ DualValidate
    \/ ModelValidate
    \/ CreateTempFile
    \/ CopyPayload
    \/ DualPrimary
    \/ DualPrimaryReturns
    \/ DualFallback
    \/ DualFallbackReturns
    \/ ServerLocal
    \/ ServerLocalReturns
    \/ ServerOpenAI
    \/ ServerOpenAIReturns
    \/ ServerReturn
    \/ OriginalTranscribe
    \/ OriginalReturns
    \/ Cleanup

Spec == Init /\ [][Next]_vars

TypeOK ==
    /\ server \in Servers
    /\ files \subseteq TempNames
    /\ served \in 0 .. MaxRequests
    /\ waiting \in 0 .. MaxRequests
    /\ on_disk \in 0 .. req.payload
    /\ buffered \in 0 .. BufferSize
    /\ on_disk + buffered <= req.payload
    /\ temp_path \in TempNames \cup {Unbound}
    /\ Len(calls) <= 2
    /\ resp.kind \in {"none", "result", "http_error", "unhandled"}
    /\ status_resp.endpoint \in {"", "/health", "/engines", "/"}

----------------------------------------------------------------------------
(* Vocabulary of the properties. *)

Done == pc = "done"

Started == pc \notin {"idle"}

AudioUpload ==
    req.content_type # NoContentType /\ StartsWithAudio(req.content_type)

(* A request of server_dual.py / server.py that names one engine. *)
SingleEngineRequest ==
    /\ server \in {"server_dual", "server"}
    /\ req.engine \in {"local", "openai"}

NamedEngine == req.engine \o "_whisper"

(* The values the engine field is documented to take. *)
KnownEngineFields ==
    IF server = "server_dual" THEN {"auto", "local", "openai"}
    ELSE {"both", "local", "openai"}

AutoRequest == server = "server_dual" /\ req.engine = "auto"

(* shutil.copyfileobj raised: the file exists and temp_path is not bound. *)
CopyFailed ==
    pc \in {"finally", "done"} /\ temp_file # Unbound /\ temp_path = Unbound

CallFailed(i) == calls[i].outcome = "error"

CallSucceeded(i) == calls[i].outcome = "ok"

----------------------------------------------------------------------------
(* C1: whenever a handler that created a temporary file has finished, the  *)
(* temporary file no longer exists, on every exit path (including a        *)
(* failure while the payload is copied).                                   *)
C1_TempFileDeleted ==
    (Done /\ temp_file # Unbound) => temp_file \notin files

(* C2: a single-engine request whose named engine is unavailable is        *)
(* answered 503 and invokes no other engine (stated for uploads with an    *)
(* audio content type whose payload is copied without error).              *)
C2_UnavailableSingleEngine ==
    (Started /\ SingleEngineRequest /\ AudioUpload /\ ~CopyFailed
        /\ ~Available(NamedEngine))
        => /\ \A i \in 1 .. Len(calls) : calls[i].engine = NamedEngine
           /\ Done => (resp.kind = "http_error" /\ resp.code = 503)

(* C3: with no engine available every request is answered 503 and no       *)
(* temporary file is created (stated for uploads with an audio content     *)
(* type).                                                                  *)
C3_NoEngineAvailable ==
    (Started /\ server \in {"server_dual", "server"} /\ AudioUpload
        /\ ~local_whisper_model /\ ~openai_client)
        => /\ temp_file = Unbound
           /\ Done => (resp.kind = "http_error" /\ resp.code = 503)

(* C4: server_dual.py, engine=auto: when the primary engine is available   *)
(* and its call returns without raising, the request makes exactly one     *)
(* engine invocation, of the primary engine, and the response is the       *)
(* primary's result without any fallback marker.                           *)
C4_PrimarySuccessNoFallback ==
    (AutoRequest /\ Available(PRIMARY_ENGINE)
        /\ Len(calls) >= 1 /\ CallSucceeded(1))
        => /\ Len(calls) = 1
           /\ calls[1].engine = PRIMARY_ENGINE
           /\ Done => /\ resp.kind = "result"
                      /\ resp.engine_used = PRIMARY_ENGINE
                      /\ resp.primary_engine_error = {}

C4_Witness ==
    /\ AutoRequest /\ Available(PRIMARY_ENGINE) /\ Done
    /\ FallbackEnabled /\ Available(FALLBACK_ENGINE)
    /\ Len(calls) = 1 /\ CallSucceeded(1)
    /\ resp.kind = "result"

(* C5 as claimed: server_dual.py, engine=auto: when the primary invocation *)
(* failed and a fallback is enabled and available, the response is a       *)
(* result that carries the fallback marker and a non-empty                 *)
(* primary_engine_error.                                                   *)
C5_FallbackAlwaysReported ==
    (AutoRequest /\ Done /\ Len(calls) >= 1 /\ CallFailed(1)
        /\ FallbackEnabled /\ Available(FALLBACK_ENGINE))
        => /\ resp.kind = "result"
           /\ resp.engine_used = FALLBACK_ENGINE \o " (fallback)"
           /\ resp.primary_engine_error # {}
           /\ "" \notin resp.primary_engine_error

(* C5 amended: under the same conditions the fallback engine is invoked    *)
(* next, and when that invocation returns without raising the response is  *)
(* a result whose engine_used is the fallback engine with the fallback     *)
(* marker and whose primary_engine_error is the message of the primary's   *)
(* exception (non-empty when that message is); when it raises too the      *)
(* request ends with an HTTP 500 error.                                    *)
C5_FallbackReportedOnSuccess ==
    (AutoRequest /\ Len(calls) >= 1 /\ CallFailed(1)
        /\ FallbackEnabled /\ Available(FALLBACK_ENGINE)
        /\ pc \notin {"fallback"})
        => /\ Len(calls) = 2
           /\ calls[2].engine = FALLBACK_ENGINE
           /\ (Done /\ CallSucceeded(2))
                 => /\ resp.kind = "result"
                    /\ resp.engine_used = FALLBACK_ENGINE \o " (fallback)"
                    /\ resp.primary_engine_error = {calls[1].error}
                    /\ (calls[1].error # ""
                           => "" \notin resp.primary_engine_error)
           /\ (Done /\ CallFailed(2))
                 => (resp.kind = "http_error" /\ resp.code = 500)

C5_Witness ==
    /\ AutoRequest /\ Done /\ Len(calls) = 2
    /\ CallFailed(1) /\ calls[1].error # "" /\ CallSucceeded(2)
    /\ FallbackEnabled /\ Available(FALLBACK_ENGINE)
    /\ resp.primary_engine_error = {"boom"}

(* C6: when every engine attempted for a request failed, the request ends  *)
(* with an HTTP 500 error, never with a 200 body.                          *)
C6_AllFailedIs500 ==
    (Done /\ Len(calls) >= 1 /\ \A i \in 1 .. Len(calls) : CallFailed(i))
        => (resp.kind = "http_error" /\ resp.code = 500)

(* C7: a request naming an engine outside the documented set creates no    *)
(* temporary file, invokes no engine and is not answered with a result.    *)
C7_UnknownEngineRejected ==
    (Started /\ server \in {"server_dual", "server"}
        /\ req.engine \notin KnownEngineFields)
        => /\ temp_file = Unbound
           /\ calls = << >>
           /\ Done => resp.kind # "result"

(* C8 as claimed: server.py, engines=both: a returned mapping has exactly  *)
(* the two engines as entries and every entry has status success or error. *)
C8_BothEntriesSuccessOrError ==
    (server = "server" /\ req.engine = "both" /\ Done /\ resp.kind = "result")
        => /\ DOMAIN resp.entries = Engines
           /\ \A e \in DOMAIN resp.entries :
                 resp.entries[e] \in {"success", "error"}

(* C8 amended: the returned mapping has exactly the two engines as         *)
(* entries; the local entry has status success or error; the remote entry  *)
(* has status success or error when the remote client is initialised and   *)
(* status not_configured when it is not.                                   *)
C8_BothEntriesTagged ==
    (server = "server" /\ req.engine = "both" /\ Done /\ resp.kind = "result")
        => /\ resp.dual_mode
           /\ DOMAIN resp.entries = Engines
           /\ resp.entries["local_whisper"] \in {"success", "error"}
           /\ resp.entries["openai_whisper"] \in
                 (IF openai_client THEN {"success", "error"}
                                   ELSE {"not_configured"})

C8_Witness ==
    /\ server = "server" /\ req.engine = "both" /\ Done
    /\ resp.kind = "result"
    /\ ~openai_client
    /\ resp.entries["local_whisper"] = "error"
    /\ resp.entries["openai_whisper"] = "not_configured"

(* C9: every engine invocation is handed normalize(hint): en-IN, hi-IN and *)
(* gu-IN become en, hi and gu, auto and the empty string become no         *)
(* language, any other tag is handed over unchanged; so the remote engine  *)
(* is handed what the local engine is.                                     *)
C9_SameLanguage ==
    LET normalize(hint) ==
            CASE hint \in {"auto", ""} -> None
              [] hint = "en-IN" -> "en"
              [] hint = "hi-IN" -> "hi"
              [] hint = "gu-IN" -> "gu"
              [] OTHER -> hint
    IN \A i \in 1 .. Len(calls) : calls[i].language = normalize(req.language)

(* C10: a finished request has produced a result or an HTTP error with     *)
(* status 400, 500 or 503; no other exception leaves the handler.          *)
C10_StructuredOutcome ==
    Done => \/ resp.kind = "result" /\ resp.code = 200
            \/ resp.kind = "http_error" /\ resp.code \in {400, 500, 503}

(* C11: a request whose handler has started can always take its next step  *)
(* towards its terminal state, also when an engine invocation never        *)
(* returns on its own: a timeout ends the invocation as a failure.  (The   *)
(* handler has no loop, so with this every fairly scheduled request        *)
(* terminates.)                                                            *)
C11_HandlerCanProceed ==
    (pc \notin {"idle", "done"}) => ENABLED HandlerStep

(* C12: an upload whose content type does not begin with audio/ (absent    *)
(* content type included) is answered 400, with no temporary file and no   *)
(* engine invocation, whatever the availability of the engines.            *)
C12_NonAudioIs400 ==
    (Started /\ ~AudioUpload)
        => /\ temp_file = Unbound
           /\ calls = << >>
           /\ Done => (resp.kind = "http_error" /\ resp.code = 400)

(* The engines a request asks for. *)
RequestedEngines ==
    CASE req.engine \in {"local", "openai"} -> {NamedEngine}
      [] req.engine = "both" -> Engines
      [] OTHER -> {}

(* C13: a request whose requested engines are all available is not         *)
(* answered 503, whatever the availability of the engines it did not ask   *)
(* for.                                                                    *)
C13_No503WhenRequestedAvailable ==
    (Done /\ server \in {"server_dual", "server"}
        /\ RequestedEngines # {}
        /\ \A e \in RequestedEngines : Available(e))
        => ~(resp.kind = "http_error" /\ resp.code = 503)

(* C14: at the moment an engine is handed the temporary path, the bytes    *)
(* readable at that path are the complete uploaded payload.                *)
C14_PayloadOnDiskBeforeInvoke ==
    \A i \in 1 .. Len(calls) : calls[i].readable = req.payload

(* C15: within one request of server_dual.py no engine is invoked twice:   *)
(* the engine of the fallback step differs from the engine of the primary  *)
(* step.                                                                   *)
C15_NoEngineTwice ==
    (server = "server_dual")
        => \A i, j \in 1 .. Len(calls) :
              i # j => calls[i].engine # calls[j].engine

(* C16 as claimed: server_dual.py, engine=auto: FALLBACK_ENGINE is invoked *)
(* only if ENABLE_DUAL_ENGINE is true, the fallback engine is available    *)
(* and the primary invocation has failed earlier in the request.           *)
C16_FallbackEngineOnlyAfterFailure ==
    AutoRequest
        => \A i \in 1 .. Len(calls) :
              calls[i].engine = FALLBACK_ENGINE
                 => /\ ENABLE_DUAL_ENGINE
                    /\ Available(FALLBACK_ENGINE)
                    /\ i > 1
                    /\ CallFailed(1)

(* C16 amended: server_dual.py, engine=auto: the fallback step (a second   *)
(* engine invocation, of FALLBACK_ENGINE) happens only if                  *)
(* ENABLE_DUAL_ENGINE is true, the fallback engine is available and the    *)
(* first invocation has failed earlier in the request; FALLBACK_ENGINE is  *)
(* the first engine invoked only when the primary step selects it, that    *)
(* is when it equals PRIMARY_ENGINE or PRIMARY_ENGINE is not available.    *)
C16_FallbackStepOnlyAfterFailure ==
    AutoRequest
        => /\ Len(calls) >= 2
                 => /\ ENABLE_DUAL_ENGINE
                    /\ Available(FALLBACK_ENGINE)
                    /\ CallFailed(1)
                    /\ calls[2].engine = FALLBACK_ENGINE
           /\ (Len(calls) >= 1 /\ calls[1].engine = FALLBACK_ENGINE)
                 => \/ PRIMARY_ENGINE = FALLBACK_ENGINE
                    \/ ~Available(PRIMARY_ENGINE)

C16_Witness ==
    /\ AutoRequest /\ Done /\ Len(calls) = 2
    /\ PRIMARY_ENGINE = "local_whisper" /\ FALLBACK_ENGINE = "openai_whisper"
    /\ calls[1].engine = "local_whisper" /\ CallFailed(1)
    /\ calls[2].engine = "openai_whisper"

(* The status server.py stores for an engine call that returned or raised. *)
StatusOf(c) == IF c.outcome = "ok" THEN "success" ELSE "error"

(* C17: server.py, engines=both, both engines available, payload staged:   *)
(* once the dispatch is over both engines have been invoked once, local    *)
(* first, whatever the outcome of either, and the response carries each    *)
(* engine's own outcome.                                                   *)
C17_BothInvokedIndependently ==
    (server = "server" /\ req.engine = "both"
        /\ local_whisper_model /\ openai_client
        /\ pc \in {"return", "finally", "done"} /\ temp_path # Unbound)
        => /\ Len(calls) = 2
           /\ calls[1].engine = "local_whisper"
           /\ calls[2].engine = "openai_whisper"
           /\ Done => /\ resp.kind = "result"
                      /\ DOMAIN resp.entries = Engines
                      /\ resp.entries["local_whisper"] = StatusOf(calls[1])
                      /\ resp.entries["openai_whisper"] = StatusOf(calls[2])

C17_Witness ==
    /\ server = "server" /\ req.engine = "both" /\ Done
    /\ Len(calls) = 2 /\ CallFailed(1) /\ CallSucceeded(2)
    /\ resp.entries["local_whisper"] = "error"
    /\ resp.entries["openai_whisper"] = "success"

(* C18: the temporary file exists when an engine invocation starts and     *)
(* for as long as it runs; it is deleted only after the last invocation    *)
(* of the request has returned or raised.                                  *)
C18_NoReadAfterDelete ==
    /\ \A i \in 1 .. Len(calls) :
          /\ calls[i].exists
          /\ calls[i].outcome \in {"running", "hung"}
                => calls[i].path \in files
    /\ (temp_path # Unbound /\ temp_path \notin files)
          => /\ Done
             /\ \A i \in 1 .. Len(calls) :
                   calls[i].outcome \in {"ok", "error"}

C18_Witness ==
    /\ Done /\ Len(calls) = 2
    /\ temp_path # Unbound /\ temp_path \notin files

(* C20: while one request's engine invocation is in flight, a request that *)
(* has arrived can start: its handler is not blocked by the engine call of *)
(* the other request.                                                      *)
C20_WaitingRequestCanStart ==
    (waiting > 0 /\ pc \in CallStates) => ENABLED Receive

----------------------------------------------------------------------------
(* What the endpoint of a GET response answers in the current state. *)
BodyOf(endpoint) ==
    CASE endpoint = "/health" -> HealthBody
      [] endpoint = "/engines" -> EnginesBody
      [] OTHER -> RootBody

(* C21: engine availability is fixed after startup.  Every step of every   *)
(* handler (POST /transcribe, GET /health, GET /engines, GET /) leaves the *)
(* two global engine handles as they were, also the steps in which an      *)
(* engine invocation fails, so the body /health, /engines and / would      *)
(* answer is the same after the step as before it, and a GET response      *)
(* that is returned carries that body.                                     *)
C21_AvailabilityFixed ==
    [][/\ local_whisper_model' = local_whisper_model
       /\ openai_client' = openai_client
       /\ HealthBody' = HealthBody
       /\ EnginesBody' = EnginesBody
       /\ RootBody' = RootBody
       /\ (status_resp' # NoStatus =>
             status_resp'.body = BodyOf(status_resp'.endpoint))]_vars

(* A request of server_dual.py has finished, one of its engine             *)
(* invocations failed, and GET /engines answered after it that the engine  *)
(* is available.                                                           *)
C21_Witness ==
    /\ Done
    /\ status_resp.endpoint = "/engines"
    /\ \E i \in 1 .. Len(calls) :
          /\ CallFailed(i)
          /\ status_resp.body[calls[i].engine].available

====
